---- MODULE Spec2Model ----
(***************************************************************************)
(* Fiscal Facil 3.1 - frontend.  State machine of the XML import panel     *)
(* (components/UploadXML.js) as mounted by components/Dashboard.js, with   *)
(* the import endpoints of the audit service as the environment; and of   *)
(* the company registration form (CadastroEmpresa): its CNPJ field, the    *)
(* registry lookup, the CNAE auto-population and the error normaliser.     *)
(*                                                                         *)
(* Spec is the import panel, SpecMascara the CNPJ field alone, and         *)
(* SpecCadastro the registration form with the lookup endpoint as the      *)
(* environment.                                                            *)
(*                                                                         *)
(* JavaScript values are tagged records: [t |-> "string", v |-> ...],      *)
(* [t |-> "array", v |-> ...], [t |-> "object", v |-> ...] and             *)
(* [t |-> "undefined"].  null state slots are the record Null.             *)
(***************************************************************************)
EXTENDS Integers, Sequences, FiniteSets, TLC

VARIABLES
    empresaId,     \* Dashboard: empresaSelecionada.id, the prop of UploadXML
    refreshNotas,  \* Dashboard: counter bumped by onUploadSuccess
    files,         \* UploadXML state: the accepted selection
    loading,       \* UploadXML state
    progresso,     \* UploadXML state
    resultado,     \* UploadXML state
    error,         \* UploadXML state
    fileInput,     \* DOM: the FileList held by <input id="file-input">
    inflight,      \* axios.post calls of handleUpload that have not settled
    gesto,         \* the operator's last gesture on the page
    cnpjInput,     \* DOM: e.target.value of input-cnpj at its last change event
    cnpj,          \* CadastroEmpresa state
    step,          \* CadastroEmpresa state
    dadosReceita,  \* CadastroEmpresa state
    loadingCadastro, \* CadastroEmpresa state `loading`
    errorCadastro, \* CadastroEmpresa state `error`
    formData,      \* CadastroEmpresa state
    consultas,     \* axios.get calls of consultarCNPJ that have not settled
    notas,         \* ListaNotas state: the invoices of the list
    toast,         \* ListaNotas state
    downloads,     \* browser: the files saved by doc.save, oldest first
    relogio,       \* browser: the clock read by new Date()
    estatisticas,  \* ListaNotas state
    loadingNotas,  \* ListaNotas state `loading`
    metricas,      \* MonitorRBT12 state
    loadingMonitor, \* MonitorRBT12 state `loading`
    errorMonitor,  \* MonitorRBT12 state `error`
    dadosImposto,  \* ImpostoEstimado state `dados`
    loadingImposto, \* ImpostoEstimado state `loading`
    errorImposto,  \* ImpostoEstimado state `error`
    pedidos,       \* axios.get calls of the three panels that have not settled
    localStorage,  \* browser: window.localStorage
    token,         \* AuthProvider state
    user,          \* AuthProvider state
    loadingAuth,   \* AuthProvider state `loading`
    authorization, \* axios.defaults.headers.common['Authorization']
    pedidosAuth,   \* calls of fetchUser, login and register that have not settled
    navegando,     \* browser: window.location.href was assigned, the page reloads
    empresas,      \* Dashboard state
    empresaSelecionada, \* Dashboard state
    empresaEditando, \* Dashboard state
    servidor,      \* backend: the revision of each company's record
    pedidosEmpresas \* calls of carregarEmpresas and of the edit form, not settled

uploadVars == <<empresaId, refreshNotas, files, loading, progresso, resultado, error,
                fileInput, inflight>>

cadastroVars == <<cnpjInput, cnpj, step, dadosReceita, loadingCadastro,
                  errorCadastro, formData, consultas>>

notasVars == <<notas, toast, downloads, relogio>>

painelVars == <<estatisticas, loadingNotas, metricas, loadingMonitor, errorMonitor,
                dadosImposto, loadingImposto, errorImposto, pedidos>>

authVars == <<token, user, loadingAuth, authorization, pedidosAuth, navegando>>

listaVars == <<empresas, empresaEditando, servidor, pedidosEmpresas>>

sessaoVars == <<localStorage, empresaSelecionada, authVars, listaVars>>

\* what neither the import panel nor the registration form holds
demaisVars == <<notasVars, painelVars, sessaoVars>>

vars == <<uploadVars, gesto, cadastroVars, demaisVars>>

uploadState == <<files, loading, progresso, resultado, error, fileInput>>

----------------------------------------------------------------------------
(* Bounds of the model *)

\* number of companies the operator can switch between
NumEmpresas == 2

\* successful imports after which the operator stops submitting
MaxRefresh == 2

\* how far a malformed batch response may deviate from the submitted count
MaxSkew == 1

(* Program constants *)

\* UploadXML.js:36  xmlFiles.length > 100
MaxArquivos == 100

Empresas == 1..NumEmpresas

----------------------------------------------------------------------------
(* JavaScript values *)

Null == [t |-> "null"]
Undefined == [t |-> "undefined"]
Str(s) == [t |-> "string", v |-> s]
Arr(s) == [t |-> "array", v |-> s]
Obj(r) == [t |-> "object", v |-> r]
Num(n) == [t |-> "number", v |-> n]
\* a string kept as the sequence of its characters
Txt(s) == [t |-> "text", v |-> s]

\* property access with optional chaining: x?.k
Get(x, k) ==
    IF x.t = "object" /\ k \in DOMAIN x.v THEN x.v[k] ELSE Undefined

\* ToBoolean of the values that occur as `detail`
Truthy(x) ==
    CASE x.t = "undefined" -> FALSE
      [] x.t = "null"      -> FALSE
      [] x.t = "string"    -> x.v # ""
      [] x.t = "number"    -> x.v # 0
      [] x.t = "text"      -> x.v # <<>>
      [] OTHER             -> TRUE

\* String.prototype.endsWith on names kept as sequences of characters
EndsWith(s, suf) ==
    /\ Len(s) >= Len(suf)
    /\ SubSeq(s, Len(s) - Len(suf) + 1, Len(s)) = suf

Remove(s, i) == SubSeq(s, 1, i - 1) \o SubSeq(s, i + 1, Len(s))

----------------------------------------------------------------------------
(* Files the operator can pick in the file dialog *)

DotXml == <<".", "x", "m", "l">>
NomeA == <<"a">> \o DotXml
NomeB == <<"b">> \o DotXml
NomeTxt == <<"c", ".", "t", "x", "t">>
NomeMaiusculo == <<"d", ".", "X", "M", "L">>

Arquivo(i, n) == [id |-> i, name |-> n]

Lote(n) == [i \in 1..n |-> Arquivo(i, NomeA)]

\* e.target.files of the change events the model draws from
Selecoes ==
    { <<>>,
      <<Arquivo(1, NomeA)>>,
      <<Arquivo(1, NomeA), Arquivo(2, NomeB)>>,
      <<Arquivo(1, NomeA), Arquivo(3, NomeTxt)>>,
      <<Arquivo(3, NomeTxt), Arquivo(1, NomeA), Arquivo(2, NomeB)>>,
      <<Arquivo(3, NomeTxt)>>,
      <<Arquivo(4, NomeMaiusculo)>>,
      Lote(MaxArquivos),
      Lote(MaxArquivos + 1) }

\* f.name.endsWith('.xml')
IsXml(f) == EndsWith(f.name, DotXml)

\* selectedFiles.filter(f => f.name.endsWith('.xml'))
XmlFiles(selectedFiles) == SelectSeq(selectedFiles, IsXml)

----------------------------------------------------------------------------
(* The audit service: what the two import endpoints may answer *)

Pendente == [status |-> "pendente"]

NotaAprovada == [numero_nota |-> 101, status_auditoria |-> "APROVADA"]
NotaRejeitada == [numero_nota |-> 102, status_auditoria |-> "REJEITADA"]

\* POST /api/notas/importar/{empresaId}: the audited invoice itself
RespostasUnicas == {NotaAprovada, NotaRejeitada}

ItemSucesso(f) == [nome_arquivo |-> f.name, sucesso |-> TRUE, nota |-> NotaAprovada]
ItemFalha(f) == [nome_arquivo |-> f.name, sucesso |-> FALSE, erro |-> "XML invalido"]

Padroes == {"todas", "nenhuma", "alternadas"}

Itens(fs, padrao) ==
    [i \in 1..Len(fs) |->
        IF padrao = "todas" \/ (padrao = "alternadas" /\ i % 2 = 1)
        THEN ItemSucesso(fs[i]) ELSE ItemFalha(fs[i])]

Sucessos(itens) == Cardinality({i \in DOMAIN itens : itens[i].sucesso})

Defeitos == {"total", "contagem", "itens"}

\* POST /api/notas/importar-lote/{empresaId}: the aggregate.  With k = 0 it
\* is consistent with the submitted files; with k > 0 it is malformed in the
\* total, in the success count or in the length of the item list
RespostaLote(fs, padrao, defeito, k) ==
    LET itens == Itens(fs, padrao)
        s == Sucessos(itens)
    IN [total_arquivos |-> Len(fs) + (IF defeito = "total" THEN k ELSE 0),
        sucesso |-> s + (IF defeito = "contagem" THEN k ELSE 0),
        falhas |-> Len(fs) - s,
        resultados |-> SubSeq(itens, 1,
                          Len(itens) - (IF defeito = "itens" THEN k ELSE 0))]

RespostasLote(fs) ==
    {RespostaLote(fs, p, d, k) : p \in Padroes, d \in Defeitos, k \in 0..MaxSkew}

\* rejected axios promises: err.response is undefined or {data: ...}
ErroHttp(data) == [response |-> Obj([data |-> data]), message |-> "Request failed"]

Erros ==
    { [response |-> Undefined, message |-> "Network Error"],
      ErroHttp(Str("Internal Server Error")),
      ErroHttp(Obj([detail |-> Str("Erro de Isolamento: CNPJ divergente")])),
      ErroHttp(Obj([detail |-> Str("")])),
      ErroHttp(Obj([detail |-> Arr(<<[loc |-> <<"body", "file">>, msg |-> "field required"]>>)])),
      ErroHttp(Obj([detail |-> Obj([codigo |-> "E42"])])),
      ErroHttp(Obj([mensagem |-> Str("falhou")])) }

Respostas(call) ==
    {[status |-> "erro", err |-> e] : e \in Erros}
    \cup {[status |-> "ok", data |-> d] :
            d \in IF call.endpoint = "importar-lote"
                  THEN RespostasLote(call.files) ELSE RespostasUnicas}

----------------------------------------------------------------------------
(* components/UploadXML.js *)

MsgSomenteXml == Str("Por favor, selecione apenas arquivos XML validos")
MsgMaximo == Str("Maximo de 100 arquivos por upload")
MsgSelecione == Str("Selecione pelo menos um arquivo")
MsgPadrao == Str("Erro ao processar arquivos")

\* useEffect(..., [empresaId]): runs when the prop changes
useEffectEmpresaId ==
    /\ files' = <<>>
    /\ resultado' = Null
    /\ error' = Str("")
    /\ progresso' = Null
    /\ fileInput' = <<>>
    /\ UNCHANGED loading

\* a rejected selection that also clears the displayed result
ResultadoAposRecusaLimpa(r) == Null

\* the displayed result after a selection that handleFileChange rejects: the
\* two early returns call no setResultado
ResultadoAposRecusa(r) == r

\* a limit check that lets one file too many through
ExcedeMaximoFrouxo(xmlFiles) == Len(xmlFiles) > MaxArquivos + 1

\* xmlFiles.length > 100
ExcedeMaximo(xmlFiles) == Len(xmlFiles) > MaxArquivos

\* onChange of the file input, with e.target.files = selectedFiles
handleFileChange(selectedFiles) ==
    LET xmlFiles == XmlFiles(selectedFiles) IN
    /\ IF Len(xmlFiles) = 0
       THEN /\ error' = MsgSomenteXml
            /\ files' = <<>>
            /\ resultado' = ResultadoAposRecusa(resultado)
       ELSE IF ExcedeMaximo(xmlFiles)
       THEN /\ error' = MsgMaximo
            /\ files' = <<>>
            /\ resultado' = ResultadoAposRecusa(resultado)
       ELSE /\ files' = xmlFiles
            /\ error' = Str("")
            /\ resultado' = Null
    /\ UNCHANGED <<empresaId, refreshNotas, loading, progresso, inflight>>

\* a button that stays enabled while a submission is in flight
BotaoDisabledSemLoading == Len(files) = 0

\* disabled={files.length === 0 || loading}
BotaoDisabled == Len(files) = 0 \/ loading

\* a batch threshold that is off by one
EndpointLimiteErrado(fs) == IF Len(fs) > 2 THEN "importar-lote" ELSE "importar"

\* the endpoint handleUpload posts to
Endpoint(fs) == IF Len(fs) > 1 THEN "importar-lote" ELSE "importar"

\* the multipart body: 'files' entries for a batch, one 'file' entry otherwise
FormData(fs) ==
    IF Len(fs) > 1
    THEN [campo |-> "files", arquivos |-> fs]
    ELSE [campo |-> "file", arquivos |-> <<fs[1]>>]

\* handleUpload up to the await of axios.post; `files` and `empresaId` are
\* the values of the render the click happened in and stay in the closure
handleUpload ==
    IF Len(files) = 0
    THEN /\ error' = MsgSelecione
         /\ UNCHANGED <<empresaId, refreshNotas, files, loading, progresso,
                        resultado, fileInput, inflight>>
    ELSE /\ loading' = TRUE
         /\ error' = Str("")
         /\ resultado' = Null
         /\ progresso' = [atual |-> 0, total |-> Len(files)]
         /\ inflight' = Append(inflight,
                [endpoint |-> Endpoint(files),
                 empresa |-> empresaId,
                 form |-> FormData(files),
                 files |-> files,
                 resp |-> Pendente])
         /\ UNCHANGED <<empresaId, refreshNotas, files, fileInput>>

\* a single-file result whose counts follow the audit verdict
ResultadoDeVeredito(fs, data) ==
    IF Len(fs) > 1
    THEN data
    ELSE [total_arquivos |-> 1,
          sucesso |-> IF data.status_auditoria = "APROVADA" THEN 1 ELSE 0,
          falhas |-> IF data.status_auditoria = "APROVADA" THEN 0 ELSE 1,
          nota |-> data]

\* the value handed to setResultado
ResultadoDe(fs, data) ==
    IF Len(fs) > 1
    THEN data
    ELSE [total_arquivos |-> 1, sucesso |-> 1, falhas |-> 0, nota |-> data]

\* err.response?.data?.detail || 'Erro ao processar arquivos'
ErrorMsg(err) ==
    LET detail == Get(Get(err.response, "data"), "detail")
    IN IF Truthy(detail) THEN detail ELSE MsgPadrao

\* a catch block that resets the selection
FilesAposCatchLimpa(fs) == <<>>

\* the selection after the catch block: it calls no setFiles
FilesAposCatch(fs) == fs

\* handleUpload after the await, promise fulfilled, and its finally block;
\* onUploadSuccess is Dashboard's setRefreshNotas(prev => prev + 1)
handleUploadThen(i) ==
    LET call == inflight[i] IN
    /\ call.resp.status = "ok"
    /\ resultado' = ResultadoDe(call.files, call.resp.data)
    /\ files' = <<>>
    /\ fileInput' = <<>>
    /\ refreshNotas' = refreshNotas + 1
    /\ loading' = FALSE
    /\ progresso' = Null
    /\ inflight' = Remove(inflight, i)
    /\ UNCHANGED <<empresaId, error, gesto, cadastroVars, demaisVars>>

\* a catch block that posts the failed request again
InflightAposCatchRepete(i) == [inflight EXCEPT ![i].resp = Pendente]

\* the pending calls after the catch block: the rejected call is gone and
\* the block issues no other
InflightAposCatch(i) == Remove(inflight, i)

\* a handler whose finally block is skipped when the catch block throws
LoadingAposFinallyPreso(l) == l

\* finally { setLoading(false) }: runs on every way out of try and catch
LoadingAposFinally(l) == FALSE

\* handleUpload after the await, promise rejected: catch, then finally.
\* errorMsg.includes throws when errorMsg is an object without that method;
\* setError has run by then and finally runs regardless.
handleUploadCatch(i) ==
    LET call == inflight[i] IN
    /\ call.resp.status = "erro"
    /\ error' = ErrorMsg(call.resp.err)
    /\ files' = FilesAposCatch(files)
    /\ loading' = LoadingAposFinally(loading)
    /\ progresso' = Null
    /\ inflight' = InflightAposCatch(i)
    /\ UNCHANGED <<empresaId, refreshNotas, resultado, fileInput, gesto, cadastroVars, demaisVars>>

----------------------------------------------------------------------------
(* The operator *)

\* picks files in the dialog of the file input; the browser dispatches a
\* change event only when the FileList changes
EscolherArquivos(sel) ==
    /\ sel # fileInput
    /\ fileInput' = sel
    /\ gesto' = "escolher"
    /\ handleFileChange(sel)
    /\ UNCHANGED <<cadastroVars, demaisVars>>

\* presses btn-upload-xml; a disabled button dispatches no click
PressionarEnviar ==
    /\ gesto' = "enviar"
    /\ IF BotaoDisabled
       THEN UNCHANGED <<empresaId, refreshNotas, files, loading, progresso,
                        resultado, error, fileInput, inflight>>
       ELSE /\ refreshNotas + Len(inflight) < MaxRefresh
            /\ handleUpload
    /\ UNCHANGED <<cadastroVars, demaisVars>>

----------------------------------------------------------------------------
(* components/Dashboard.js *)

\* empresa.id, a string, of the company e
IdDe(e) == Str(ToString(e))

\* the token a session that ended left in local storage, and the one the
\* backend issues now
TokenAntigo == Str("T0")
TokenNovo == Str("T1")

\* `Bearer ${token}`
Bearer(t) == Str("Bearer " \o t.v)

Usuario == Obj([email |-> Str("contador@exemplo.com")])

\* the record of company e at revision rev, as GET /api/empresas returns it
Empresa(e, rev) ==
    Obj([id |-> IdDe(e), razao_social |-> Str("Empresa " \o ToString(e) \o
                                              " rev " \o ToString(rev))])

\* response.data of GET /api/empresas
ListaDoServidor(db) == [e \in 1..NumEmpresas |-> Empresa(e, db[e])]

\* response.data.find(e => e.id === id), undefined when there is none
Find(lista, id) ==
    IF \E i \in DOMAIN lista : lista[i].v.id = id
    THEN lista[CHOOSE i \in DOMAIN lista :
                   /\ lista[i].v.id = id
                   /\ \A j \in 1..(i - 1) : lista[j].v.id # id]
    ELSE Undefined

\* the company whose id is the string id
NumDe(id) == CHOOSE e \in Empresas : IdDe(e) = id

\* handleSelecionarEmpresa: setEmpresaSelecionada and localStorage.setItem;
\* UploadXML stays mounted and gets the new prop
SelecaoNoDashboard(e) ==
    /\ Find(empresas, IdDe(e)) # Undefined
    /\ empresaSelecionada' = Find(empresas, IdDe(e))
    /\ empresaId' = e
    /\ gesto' = "trocar"
    /\ localStorage' = [localStorage EXCEPT !.empresaSelecionadaId = IdDe(e)]
    /\ IF e # empresaId THEN useEffectEmpresaId ELSE UNCHANGED uploadState
    /\ UNCHANGED <<refreshNotas, inflight, cadastroVars, authVars, listaVars>>

\* onClick of a company card, the three panels left aside
handleSelecionarEmpresa(e) ==
    /\ SelecaoNoDashboard(e)
    /\ UNCHANGED <<notasVars, painelVars>>

----------------------------------------------------------------------------
(* The network *)

ServerRespond(i) ==
    /\ inflight[i].resp = Pendente
    /\ \E r \in Respostas(inflight[i]) :
          inflight' = [inflight EXCEPT ![i].resp = r]
    /\ UNCHANGED <<empresaId, refreshNotas, files, loading, progresso, resultado,
                   error, fileInput, gesto, cadastroVars, demaisVars>>

Responder == \E i \in DOMAIN inflight : ServerRespond(i)

\* the microtask that resumes handleUpload
Then == \E i \in DOMAIN inflight : handleUploadThen(i)
Catch == \E i \in DOMAIN inflight : handleUploadCatch(i)

----------------------------------------------------------------------------

\* the state after construction, but for the session and the panels
InitSemSessao ==
    /\ empresaId \in Empresas
    /\ refreshNotas = 0
    /\ files = <<>>
    /\ loading = FALSE
    /\ progresso = Null
    /\ resultado = Null
    /\ error = Str("")
    /\ fileInput = <<>>
    /\ inflight = <<>>
    /\ gesto = "nenhum"
    /\ cnpjInput = <<>>
    /\ cnpj = <<>>
    /\ step = 1
    /\ dadosReceita = Null
    /\ loadingCadastro = FALSE
    /\ errorCadastro = Str("")
    /\ formData = [regime_tributario |-> "Simples Nacional",
                   aliquota_imposto |-> 6,
                   cnaes_permitidos |-> <<>>]
    /\ consultas = <<>>
    /\ toast = [show |-> FALSE, message |-> "", type |-> "success"]
    /\ downloads = <<>>
    /\ relogio = 0

\* a session opened by login, the Dashboard mounted and its list loaded:
\* the first company was selected by carregarEmpresas, another by a click
InitSessaoAberta ==
    /\ localStorage = [token |-> TokenNovo, empresaSelecionada |-> Null,
                       empresaSelecionadaId |->
                           IF empresaId = 1 THEN Null ELSE IdDe(empresaId)]
    /\ token = TokenNovo
    /\ user = Usuario
    /\ loadingAuth = FALSE
    /\ authorization = Bearer(TokenNovo)
    /\ pedidosAuth = <<>>
    /\ navegando = FALSE
    /\ servidor = [e \in Empresas |-> 0]
    /\ empresas = ListaDoServidor(servidor)
    /\ empresaSelecionada = Empresa(empresaId, 0)
    /\ empresaEditando = Null
    /\ pedidosEmpresas = <<>>

\* the state after construction, but for the three per-company panels
InitSemPaineis == InitSemSessao /\ InitSessaoAberta

\* the useState initial values of MonitorRBT12, ImpostoEstimado and of the
\* statistics of ListaNotas
InitPaineisVazios ==
    /\ estatisticas = Null
    /\ metricas = Null
    /\ loadingMonitor = TRUE
    /\ errorMonitor = Str("")
    /\ dadosImposto = Null
    /\ loadingImposto = TRUE
    /\ errorImposto = Str("")

\* the state after construction, but for the invoice list
InitSemNotas ==
    /\ InitSemPaineis
    /\ InitPaineisVazios
    /\ pedidos = <<>>

Init ==
    /\ InitSemNotas
    /\ notas = <<>>
    /\ loadingNotas = TRUE

Next ==
    \/ \E sel \in Selecoes : EscolherArquivos(sel)
    \/ PressionarEnviar
    \/ Responder
    \/ Then
    \/ Catch
    \/ \E e \in Empresas : handleSelecionarEmpresa(e)

Spec == Init /\ [][Next]_vars

\* the operator of the fair behaviours picks one file or a batch of two
SelecoesJusto ==
    { <<Arquivo(1, NomeA)>>,
      <<Arquivo(1, NomeA), Arquivo(2, NomeB)>> }

NextJusto ==
    \/ \E sel \in SelecoesJusto : EscolherArquivos(sel)
    \/ PressionarEnviar
    \/ Responder
    \/ Then
    \/ Catch
    \/ \E e \in Empresas : handleSelecionarEmpresa(e)

\* the transport settles every call and the event loop runs every
\* continuation that is ready; the operator is under no obligation
SpecJusto ==
    /\ Init
    /\ [][NextJusto]_vars
    /\ WF_vars(Responder)
    /\ WF_vars(Then)
    /\ WF_vars(Catch)

----------------------------------------------------------------------------
(* Steps, told by what they change *)

\* the step in which call i of handleUpload settles
Liquidou(i) == i \in DOMAIN inflight /\ inflight' = Remove(inflight, i)

LiquidouOk(i) == Liquidou(i) /\ inflight[i].resp.status = "ok"
LiquidouErro(i) == Liquidou(i) /\ inflight[i].resp.status = "erro"

\* a change event of the file input
Escolheu ==
    /\ fileInput' # fileInput
    /\ inflight' = inflight
    /\ empresaId' = empresaId

\* a click that handleUpload accepted
Enviou == Len(inflight') = Len(inflight) + 1

ContagemValida(n) == n >= 1 /\ n <= MaxArquivos

\* the per-item outcomes a stored result carries
ItensDoResultado(r) ==
    IF "resultados" \in DOMAIN r THEN r.resultados
    ELSE IF "nota" \in DOMAIN r THEN <<r.nota>>
    ELSE <<>>

----------------------------------------------------------------------------
(* Claims *)

\* C1 (as claimed): when a submission issued for a company settles after the
\* active company has changed, resultado, error and files are left as they are.
C1_StaleOutcomeDiscarded ==
    [][\A i \in DOMAIN inflight :
          (Liquidou(i) /\ inflight[i].empresa # empresaId)
              => UNCHANGED <<resultado, error, files>>]_vars

\* C2 (as claimed): a submit request made while a submission is in flight
\* issues no transport call and ends in an ImportAlreadyInProgress error.
C2_SecondSubmitRejectedWithError ==
    [][(gesto' = "enviar" /\ gesto # "enviar" /\ loading)
          => (inflight' = inflight /\ error' = Str("ImportAlreadyInProgress"))]_vars

\* C2 (amended): a submit request made while a submission is in flight finds
\* the button disabled: it issues no transport call and changes nothing of the
\* upload state, error included; at most one import call is ever outstanding.
C2_SecondSubmitIgnored ==
    /\ [](Len(inflight) <= 1)
    /\ [][(gesto' = "enviar" /\ gesto # "enviar" /\ loading)
             => (inflight' = inflight /\ UNCHANGED uploadState)]_vars

\* C2 witness: the button was pressed while a call was outstanding for another
\* selection than the one now held
C2_Witness ==
    /\ gesto = "enviar"
    /\ loading
    /\ Len(inflight) = 1
    /\ files # <<>>
    /\ files # inflight[1].files

\* a press of the submit button with nothing selected
EnviouSemArquivos == gesto' = "enviar" /\ gesto # "enviar" /\ Len(files) = 0

\* C3 (as claimed): no import call carries 0 or more than 100 files, and a
\* selection or a submit request with such a count ends in a validation message.
C3_InvalidCountEndsInMessage ==
    /\ [](\A i \in DOMAIN inflight : ContagemValida(Len(inflight[i].form.arquivos)))
    /\ [][(\/ Escolheu /\ ~ContagemValida(Len(XmlFiles(fileInput')))
           \/ EnviouSemArquivos)
             => error' \in {MsgSomenteXml, MsgMaximo, MsgSelecione}]_vars

\* C3 (amended): no import call carries 0 or more than 100 files; a selection
\* with 0 or more than 100 XML files ends in a validation message and an empty
\* selection; a submit request with nothing selected finds the button disabled
\* and changes nothing, so it shows no message of its own.
C3_FileCountValidated ==
    /\ [](\A i \in DOMAIN inflight :
            /\ ContagemValida(Len(inflight[i].files))
            /\ ContagemValida(Len(inflight[i].form.arquivos)))
    /\ [][(Escolheu /\ ~ContagemValida(Len(XmlFiles(fileInput'))))
             => (files' = <<>> /\ error' \in {MsgSomenteXml, MsgMaximo})]_vars
    /\ [][EnviouSemArquivos => (inflight' = inflight /\ UNCHANGED uploadState)]_vars

\* C3 witness: 101 XML files were picked and refused, and the submit button
\* was then pressed to no effect
C3_Witness ==
    /\ Len(fileInput) = MaxArquivos + 1
    /\ files = <<>>
    /\ error = MsgMaximo
    /\ gesto = "enviar"
    /\ inflight = <<>>

\* C4 (as claimed): a selection holding a file without the .xml extension ends
\* in an error and an empty selection, so nothing of it can be submitted.
C4_NonXmlSelectionRejected ==
    [][(Escolheu /\ \E k \in DOMAIN fileInput' : ~IsXml(fileInput'[k]))
          => (files' = <<>> /\ error' # Str(""))]_vars

\* C5: every outstanding call went to the single-item endpoint with exactly
\* one file or to the batch endpoint with two or more.
C5_EndpointByFileCount ==
    \A i \in DOMAIN inflight :
        LET n == Len(inflight[i].form.arquivos) IN
        /\ inflight[i].endpoint \in {"importar", "importar-lote"}
        /\ inflight[i].endpoint = "importar" <=> n = 1
        /\ inflight[i].endpoint = "importar-lote" <=> n >= 2
        /\ inflight[i].form.arquivos = inflight[i].files

\* C5 witness: a batch of exactly two files is outstanding at the batch endpoint
C5_Witness ==
    \E i \in DOMAIN inflight :
        /\ inflight[i].endpoint = "importar-lote"
        /\ Len(inflight[i].form.arquivos) = 2

\* C6 (as claimed): after a failed transport call the selected files are the
\* files that were selected when that submission started.
C6_FilesAfterFailureAreSubmitted ==
    [][\A i \in DOMAIN inflight :
          LiquidouErro(i) => files' = inflight[i].files]_vars

\* C6 (amended): a failed transport call leaves the selected files as they
\* were just before the failure settled.
C6_FailureKeepsSelection ==
    [][\A i \in DOMAIN inflight : LiquidouErro(i) => files' = files]_vars

\* C6 witness: a submission of the full batch has failed and the batch is
\* still selected, the button enabled again
C6_Witness ==
    /\ error = Str("Erro de Isolamento: CNPJ divergente")
    /\ files = Lote(MaxArquivos)
    /\ ~BotaoDisabled

\* C7 (as claimed): a displayed result changes only when a submission
\* completes successfully.
C7_ResultClearedOnlyBySuccess ==
    [][(resultado # Null /\ resultado' # resultado)
          => \E i \in DOMAIN inflight : LiquidouOk(i)]_vars

\* C7 (amended): the displayed result changes only by a valid new selection,
\* the start of a submission or a company change, which clear it, or by a
\* successful completion, which sets it; a failed call and a refused
\* selection leave it as it is.
C7_ResultChangedOnlyBy ==
    [][(resultado' # resultado) =>
          \/ Escolheu /\ files' # <<>> /\ resultado' = Null
          \/ Enviou /\ resultado' = Null
          \/ empresaId' # empresaId /\ resultado' = Null
          \/ (\E i \in DOMAIN inflight : LiquidouOk(i)) /\ resultado' # Null]_vars

\* C7 witness: a result is on display and a later selection was refused
C7_Witness ==
    /\ resultado # Null
    /\ error = MsgSomenteXml
    /\ fileInput # <<>>

\* C8 (as claimed): a batch response whose total differs from the number of
\* files submitted stores no result and ends in an error.
C8_MalformedBatchRejected ==
    [][\A i \in DOMAIN inflight :
          (/\ LiquidouOk(i)
           /\ inflight[i].endpoint = "importar-lote"
           /\ inflight[i].resp.data.total_arquivos # Len(inflight[i].files))
              => (resultado' = Null /\ error' # Str(""))]_vars

\* C9 (as claimed): a stored result has sucesso + falhas = total_arquivos =
\* the number of its per-item outcomes.
C9_ResultCountsAgree ==
    resultado # Null =>
        /\ resultado.sucesso + resultado.falhas = resultado.total_arquivos
        /\ resultado.total_arquivos = Len(ItensDoResultado(resultado))

\* C10: a single-file submission that succeeds stores total 1, success 1,
\* failures 0 around the returned invoice, whatever its audit verdict.
C10_SingleResultSynthesized ==
    [][\A i \in DOMAIN inflight :
          (LiquidouOk(i) /\ Len(inflight[i].files) = 1)
              => resultado' = [total_arquivos |-> 1, sucesso |-> 1, falhas |-> 0,
                               nota |-> inflight[i].resp.data]]_vars

\* C10 witness: the stored single result wraps a rejected invoice
C10_Witness ==
    /\ resultado # Null
    /\ "nota" \in DOMAIN resultado
    /\ resultado.nota = NotaRejeitada
    /\ resultado.sucesso = 1

\* C11 (as claimed): the upload error state always holds a plain string,
\* whatever the payload of a failed import was.
C11_UploadErrorIsString == error.t = "string"

\* a step in which handleUpload resumes and runs its finally block
Retomou == loading /\ ~loading'

\* C12: an accepted submit request issues exactly one import call, nothing
\* else issues one, and when the call settles it is gone, not re-issued, and
\* has produced either a stored result or an error, never both or neither.
C12_OneCallOneOutcome ==
    /\ [](loading <=> Len(inflight) = 1)
    /\ [](~loading <=> inflight = <<>>)
    /\ [][(gesto' = "enviar" /\ ~BotaoDisabled)
             => inflight' = Append(inflight, inflight'[Len(inflight')])]_vars
    /\ [][(inflight' # inflight /\ Len(inflight') >= Len(inflight) /\ ~Retomou)
             => \/ gesto' = "enviar" /\ ~BotaoDisabled
                \/ \E i \in DOMAIN inflight :
                      /\ inflight[i].resp = Pendente
                      /\ inflight' = [inflight EXCEPT ![i].resp = inflight'[i].resp]]_vars
    /\ [][Retomou =>
             /\ inflight' = <<>>
             /\ \/ resultado' # Null /\ error' = error
                \/ resultado' = resultado /\ resultado' = Null /\ error' # Str("")]_vars

\* C12 witness: a submission has failed; its error is shown, no call is
\* outstanding and the button is enabled for the operator to retry
C12_Witness ==
    /\ error = MsgPadrao
    /\ inflight = <<>>
    /\ ~BotaoDisabled
    /\ gesto = "enviar"

\* ---------------------------------------------------------------------------
\* CadastroEmpresa: the CNPJ field
\* ---------------------------------------------------------------------------

\* maxLength of input-cnpj
MaxLength == 18

\* number of digits of a CNPJ
TamanhoCNPJ == 14

Digitos == {"0", "1", "2", "3", "4", "5", "6", "7", "8", "9"}

\* \d
IsDigit(c) == c \in Digitos

Min(a, b) == IF a <= b THEN a ELSE b

RECURSIVE Soma(_)
Soma(ns) == IF ns = <<>> THEN 0 ELSE ns[1] + Soma(Tail(ns))

\* the number of consecutive \d characters of s from position p on
RECURSIVE DigitRun(_, _)
DigitRun(s, p) ==
    IF p > Len(s) \/ ~IsDigit(s[p]) THEN 0 ELSE 1 + DigitRun(s, p + 1)

\* the leftmost position at which `need` consecutive digits start, 0 if none
FirstMatch(s, need) ==
    LET ps == {p \in 1..Len(s) : DigitRun(s, p) >= need}
    IN  IF ps = {} THEN 0 ELSE CHOOSE p \in ps : \A q \in ps : p <= q

\* the replacement string '$1<sep1>$2<sep2>...$k<sepk>$last' for the matched
\* text, whose fixed groups have the sizes gs
RECURSIVE Agrupar(_, _, _)
Agrupar(texto, gs, seps) ==
    IF gs = <<>>
    THEN texto
    ELSE SubSeq(texto, 1, gs[1]) \o <<seps[1]>>
         \o Agrupar(SubSeq(texto, gs[1] + 1, Len(texto)), Tail(gs), Tail(seps))

\* String.prototype.replace with a pattern without the g flag made of the
\* fixed groups (\d{gs[i]}) and one greedy last group (\d{0,m}): only the
\* first match is replaced, and the text around the match is kept
RegexReplace(s, gs, m, seps) ==
    LET need == Soma(gs)
        p == FirstMatch(s, need)
    IN  IF p = 0
        THEN s
        ELSE LET tam == need + Min(m, DigitRun(s, p) - need)
             IN  SubSeq(s, 1, p - 1)
                 \o Agrupar(SubSeq(s, p, p + tam - 1), gs, seps)
                 \o SubSeq(s, p + tam, Len(s))

\* valor.replace(/\D/g, '')
SoDigitos(valor) == SelectSeq(valor, IsDigit)

\* the branches of aplicarMascaraCNPJ on the stripped value
MascaraProgressiva(numeros) ==
    IF Len(numeros) <= 2 THEN numeros
    ELSE IF Len(numeros) <= 5 THEN RegexReplace(numeros, <<2>>, 3, <<".">>)
    ELSE IF Len(numeros) <= 8 THEN RegexReplace(numeros, <<2, 3>>, 3, <<".", ".">>)
    ELSE IF Len(numeros) <= 12
         THEN RegexReplace(numeros, <<2, 3, 3>>, 4, <<".", ".", "/">>)
    ELSE RegexReplace(numeros, <<2, 3, 3, 4>>, 2, <<".", ".", "/", "-">>)

\* a mask that forgets to strip what is not a digit
aplicarMascaraSemLimpar(valor) == MascaraProgressiva(valor)

aplicarMascaraCNPJ(valor) == MascaraProgressiva(SoDigitos(valor))

NaoEPonto(c) == c \notin {".", "-"}

\* an unmask that strips the dots and the dash only
limparSoPontos(valor) == SelectSeq(valor, NaoEPonto)

limparCNPJ(valor) == SoDigitos(valor)

\* handleCnpjChange with e.target.value = valor
handleCnpjChange(valor) ==
    /\ cnpjInput' = valor
    /\ cnpj' = aplicarMascaraCNPJ(valor)
    /\ UNCHANGED <<step, dadosReceita, loadingCadastro, errorCadastro, formData,
                   consultas>>

\* the operator at the CNPJ field, which step 1 renders -------------------------

Front(s) == SubSeq(s, 1, Len(s) - 1)

Base18 == <<"1", "2", "3", "4", "5", "6", "7", "8", "9", "0", "1", "2", "3", "4",
            "5", "6", "7", "8">>

CnpjFormatado == <<"1", "1", ".", "2", "2", "2", ".", "3", "3", "3", "/",
                   "0", "0", "0", "1", "-", "8", "1">>

\* what the operator pastes over the whole field
Colagens ==
    {SubSeq(Base18, 1, n) : n \in 13..MaxLength}
        \cup {CnpjFormatado, <<"c", "n", "p", "j", " ", "1", "2">>}

\* the keys the operator types at the end of the field
Teclas == {"7", "x"}

Digitar(c) ==
    /\ step = 1
    /\ Len(cnpj) < MaxLength
    /\ gesto' = "digitar"
    /\ handleCnpjChange(Append(cnpj, c))
    /\ UNCHANGED <<uploadVars, demaisVars>>

Apagar ==
    /\ step = 1
    /\ cnpj # <<>>
    /\ gesto' = "apagar"
    /\ handleCnpjChange(Front(cnpj))
    /\ UNCHANGED <<uploadVars, demaisVars>>

Colar(texto) ==
    /\ step = 1
    /\ gesto' = "colar"
    /\ handleCnpjChange(SubSeq(texto, 1, Min(Len(texto), MaxLength)))
    /\ UNCHANGED <<uploadVars, demaisVars>>

InitCadastro == Init /\ empresaId = 1

NextMascara ==
    \/ \E c \in Teclas : Digitar(c)
    \/ Apagar
    \/ \E texto \in Colagens : Colar(texto)

SpecMascara == InitCadastro /\ [][NextMascara]_vars

\* the digits of a text, as the claims about the mask mean them
DigitosDe(texto) == SelectSeq(texto, LAMBDA c : c \in Digitos)

Pontuacao == {".", "/", "-"}

\* C14: for every digit string d of length 0 to 14, limparCNPJ recovers from
\* aplicarMascaraCNPJ(d) exactly the digits given, and the mask added nothing
\* but punctuation; so the field of a form that holds at most 14 digits shows
\* a text whose digits are the digits entered.
C14_UnmaskRecoversDigits ==
    LET d == DigitosDe(cnpjInput)
    IN  Len(d) <= TamanhoCNPJ =>
            /\ limparCNPJ(aplicarMascaraCNPJ(d)) = d
            /\ \A i \in DOMAIN aplicarMascaraCNPJ(d) :
                   aplicarMascaraCNPJ(d)[i] \in Digitos \cup Pontuacao
            /\ limparCNPJ(cnpj) = d

C14_Witness ==
    /\ gesto = "digitar"
    /\ Len(DigitosDe(cnpjInput)) = TamanhoCNPJ
    /\ Len(cnpj) = MaxLength
    /\ cnpj[11] = "/"

\* C15: the mask is idempotent on its own output: for every text x that
\* reaches handleCnpjChange, masking the masked text again, or masking its
\* unmasked digits, gives the masked text; the text the field holds is a
\* fixed point of the mask, also when the text entered ends in punctuation.
C15_MaskIdempotent ==
    LET x == cnpjInput
    IN  /\ aplicarMascaraCNPJ(aplicarMascaraCNPJ(x)) = aplicarMascaraCNPJ(x)
        /\ aplicarMascaraCNPJ(limparCNPJ(aplicarMascaraCNPJ(x))) = aplicarMascaraCNPJ(x)
        /\ aplicarMascaraCNPJ(cnpj) = cnpj

C15_Witness ==
    /\ gesto = "apagar"
    /\ cnpjInput # <<>>
    /\ cnpjInput[Len(cnpjInput)] \in Pontuacao
    /\ cnpj = Front(cnpjInput)
    /\ Len(cnpj) > 2

\* C16 (as claimed): for every input with more than 14 digits the mask returns
\* the grouped form of the first 14 digits only: the field never holds more
\* than 14 digits and nothing follows the two-digit final group.
C16_ExcessDigitsTruncated ==
    LET d == DigitosDe(cnpjInput)
    IN  Len(d) > TamanhoCNPJ =>
            /\ cnpj = aplicarMascaraCNPJ(SubSeq(d, 1, TamanhoCNPJ))
            /\ Len(DigitosDe(cnpj)) <= TamanhoCNPJ
            /\ Len(cnpj) = MaxLength

\* ---------------------------------------------------------------------------
\* CadastroEmpresa: extrairMensagemErro
\* ---------------------------------------------------------------------------

\* a TypeError thrown while a value is computed
TypeError == [t |-> "throw"]

\* typeof x === 'object'
TypeofObject(x) == x.t \in {"object", "array", "null"}

\* the order in which the keys of an object literal were written
OrdemChaves == <<"loc", "msg", "type", "detail", "mensagem", "codigo">>

RECURSIVE JoinStr(_, _)
JoinStr(textos, sep) ==
    IF textos = <<>> THEN ""
    ELSE IF Len(textos) = 1 THEN textos[1]
    ELSE textos[1] \o sep \o JoinStr(Tail(textos), sep)

\* the JSON text of a value other than undefined
RECURSIVE JsonText(_)
JsonText(x) ==
    CASE x.t = "null"   -> "null"
      [] x.t = "string" -> "\"" \o x.v \o "\""
      [] x.t = "number" -> ToString(x.v)
      [] x.t = "array"  ->
            "[" \o JoinStr([i \in DOMAIN x.v |->
                              IF x.v[i].t = "undefined" THEN "null"
                              ELSE JsonText(x.v[i])], ",") \o "]"
      [] x.t = "object" ->
            LET chaves == SelectSeq(OrdemChaves,
                              LAMBDA k : k \in DOMAIN x.v /\ x.v[k].t # "undefined")
            IN  "{" \o JoinStr([i \in DOMAIN chaves |->
                                  "\"" \o chaves[i] \o "\":" \o JsonText(x.v[chaves[i]])],
                               ",") \o "}"

\* JSON.stringify(x): undefined for undefined
Stringify(x) == IF x.t = "undefined" THEN Undefined ELSE Str(JsonText(x))

\* the string conversion of a template literal, for the values a message or
\* a location segment holds
TextoDe(x) ==
    CASE x.t = "string" -> x.v
      [] x.t = "number" -> ToString(x.v)
      [] x.t = "null"   -> "null"
      [] x.t = "undefined" -> "undefined"
      [] OTHER          -> "[object Object]"

\* the callback of data.detail.map
ItemDeDetail(e) ==
    IF e.t = "string" THEN e
    ELSE IF e.t \in {"null", "undefined"} THEN TypeError
    ELSE IF Truthy(Get(e, "msg"))
         THEN LET loc == Get(e, "loc")
              IN  IF ~Truthy(loc) THEN Str(TextoDe(Get(e, "msg")))
                  ELSE IF loc.t # "array" THEN TypeError
                  ELSE Str(JoinStr([i \in DOMAIN loc.v |-> TextoDe(loc.v[i])], ".")
                           \o ": " \o TextoDe(Get(e, "msg")))
    ELSE Stringify(e)

\* data.detail.map(...).join('; ')
DetalheLista(detail) ==
    LET itens == [i \in DOMAIN detail.v |-> ItemDeDetail(detail.v[i])]
    IN  IF \E i \in DOMAIN itens : itens[i] = TypeError
        THEN TypeError
        ELSE Str(JoinStr([i \in DOMAIN itens |-> itens[i].v], "; "))

MsgDesconhecido == Str("Erro desconhecido ao processar requisicao.")

\* the last defence: if (typeof mensagemErro === 'object')
UltimaDefesa(mensagemErro) ==
    IF mensagemErro # TypeError /\ TypeofObject(mensagemErro)
    THEN Stringify(mensagemErro)
    ELSE mensagemErro

\* else if (data?.detail)
TemDetail(data) == Truthy(Get(data, "detail"))

extrairMensagemErro(err) ==
    UltimaDefesa(
        IF Truthy(err.response)
        THEN LET data == Get(err.response, "data")
             IN  IF data.t = "string" THEN data
                 ELSE IF TemDetail(data)
                      THEN LET detail == Get(data, "detail")
                           IN  IF detail.t = "array" THEN DetalheLista(detail)
                               ELSE IF detail.t = "string" THEN detail
                               ELSE Stringify(detail)
                 ELSE Stringify(data)
        ELSE IF Truthy(err.message) THEN err.message
        ELSE MsgDesconhecido)

\* the failures of the lookup -----------------------------------------------

FalhaHttp(data) ==
    [response |-> Obj([data |-> data]),
     message |-> Str("Request failed with status code 422")]

EntradaValidacao == Obj([loc |-> Arr(<<Str("body"), Str("cnpj")>>),
                        msg |-> Str("field required")])

FalhasComuns ==
    { [response |-> Undefined, message |-> Str("Network Error")],
      FalhaHttp(Str("Internal Server Error")),
      FalhaHttp(Obj([detail |-> Str("CNPJ nao encontrado")])),
      FalhaHttp(Obj([detail |-> Arr(<<EntradaValidacao>>)])),
      FalhaHttp(Obj([detail |-> Arr(<<Obj([msg |-> Str("muito curto")]), Str("b"),
                                      Obj([type |-> Str("missing")])>>)])),
      FalhaHttp(Obj([detail |-> Arr(<<Obj([loc |-> Arr(<<Str("body"), Num(0)>>),
                                           msg |-> Str("invalido")]),
                                      EntradaValidacao>>)])),
      FalhaHttp(Obj([detail |-> Obj([codigo |-> Str("E42")])])),
      FalhaHttp(Obj([mensagem |-> Str("falhou")])) }

FalhasDegeneradas ==
    { [response |-> Undefined, message |-> Undefined],
      [response |-> Undefined, message |-> Obj([codigo |-> Str("ECONNRESET")])],
      FalhaHttp(Undefined),
      FalhaHttp(Null),
      FalhaHttp(Obj([detail |-> Str("")])),
      FalhaHttp(Obj([detail |-> Null])),
      FalhaHttp(Obj([detail |-> Num(0)])),
      FalhaHttp(Obj([detail |-> Arr(<<>>)])),
      FalhaHttp(Obj([detail |-> Arr(<<Null>>)])),
      FalhaHttp(Obj([detail |-> Arr(<<Num(7)>>)])) }

Falhas == FalhasComuns \cup FalhasDegeneradas

\* ---------------------------------------------------------------------------
\* CadastroEmpresa: consultarCNPJ
\* ---------------------------------------------------------------------------

\* the largest number of secondary activities a lookup answers with
MaxSecundarios == 7

\* cnaes_secundarios.slice(0, 5)
LimiteSecundarios == 5

MsgCnpjInvalido == Str("CNPJ invalido. Digite 14 numeros.")

\* the answers of GET /api/empresas/consulta/{cnpj} -------------------------

Secundario(i) ==
    Obj([codigo |-> Num(6200000 + i), descricao |-> Str("Atividade " \o ToString(i))])

Secundarios(n) == Arr([i \in 1..n |-> Secundario(i)])

PrincipalNumerico ==
    Obj([codigo |-> Num(6201500), descricao |-> Str("Desenvolvimento de programas")])

Principais ==
    { Undefined, Null, PrincipalNumerico,
      Obj([codigo |-> Str("6201-5/00"), descricao |-> Str("Desenvolvimento de programas")]),
      Obj([codigo |-> Num(0), descricao |-> Str("Nao informada")]),
      Obj([codigo |-> Num(6201500)]),
      Obj([codigo |-> Null, descricao |-> Null]) }

SecundariosDiversos ==
    Arr(<< Obj([codigo |-> Str("6311-9/00")]),
           Obj([codigo |-> Num(0), descricao |-> Null]),
           Obj([descricao |-> Str("sem codigo")]) >>)

DadosDe(principal, secundarios) ==
    Obj([razao_social |-> Str("EMPRESA LTDA"),
         cnae_principal |-> principal,
         cnaes_secundarios |-> secundarios])

DadosReceita ==
    {DadosDe(p, Secundarios(n)) : p \in {Undefined, PrincipalNumerico},
                                  n \in 0..MaxSecundarios}
        \cup {DadosDe(p, s) : p \in Principais,
                              s \in {Undefined, Null, SecundariosDiversos}}

RespostasConsulta ==
    {[status |-> "ok", data |-> d] : d \in DadosReceita}
        \cup {[status |-> "erro", err |-> f] : f \in Falhas}

\* the CNAE auto-population ------------------------------------------------

\* String(x)
JSString(x) == Str(TextoDe(x))

\* the entry pushed for a CNAE of the answer
EntradaCNAE(cnae) ==
    [cnae_codigo |-> IF Truthy(Get(cnae, "codigo"))
                     THEN JSString(Get(cnae, "codigo")) ELSE Str(""),
     descricao |-> IF Truthy(Get(cnae, "descricao"))
                   THEN Get(cnae, "descricao") ELSE Str(""),
     codigo_servico_municipal |-> Str("")]

\* a slice that keeps every secondary activity
FatiaInteira(lista) == lista

\* dados.cnaes_secundarios.slice(0, 5)
Fatia(lista) == SubSeq(lista, 1, Min(LimiteSecundarios, Len(lista)))

cnaesAutoPopulados(dados) ==
    LET principal == Get(dados, "cnae_principal")
        secundarios == Get(dados, "cnaes_secundarios")
    IN  (IF Truthy(principal) THEN <<EntradaCNAE(principal)>> ELSE <<>>)
        \o (IF Truthy(secundarios) /\ Len(secundarios.v) > 0
            THEN [i \in DOMAIN Fatia(secundarios.v) |-> EntradaCNAE(Fatia(secundarios.v)[i])]
            ELSE <<>>)

\* the handler ---------------------------------------------------------------

\* a validation that only rejects identifiers that are too short
CnpjInvalidoCurto(cnpjLimpo) == Len(cnpjLimpo) < TamanhoCNPJ

\* cnpjLimpo.length !== 14
CnpjInvalido(cnpjLimpo) == Len(cnpjLimpo) # TamanhoCNPJ

\* disabled={loading || !cnpj}
ConsultarDisabled == loadingCadastro \/ cnpj = <<>>

\* consultarCNPJ up to its await (or its early return)
consultarCNPJ ==
    LET cnpjLimpo == limparCNPJ(cnpj)
    IN  IF CnpjInvalido(cnpjLimpo)
        THEN /\ errorCadastro' = MsgCnpjInvalido
             /\ loadingCadastro' = FALSE
             /\ UNCHANGED <<cnpjInput, cnpj, step, dadosReceita, formData, consultas>>
        ELSE /\ errorCadastro' = Str("")
             /\ loadingCadastro' = TRUE
             /\ consultas' = Append(consultas, [cnpj |-> cnpjLimpo,
                                                formData |-> formData,
                                                resp |-> Pendente])
             /\ UNCHANGED <<cnpjInput, cnpj, step, dadosReceita, formData>>

\* consultarCNPJ after the await, promise fulfilled, and its finally block
consultarCNPJThen(i) ==
    LET call == consultas[i] IN
    /\ call.resp.status = "ok"
    /\ dadosReceita' = call.resp.data
    /\ formData' = [call.formData EXCEPT
                        !.cnaes_permitidos = cnaesAutoPopulados(call.resp.data)]
    /\ step' = 2
    /\ loadingCadastro' = FALSE
    /\ consultas' = Remove(consultas, i)
    /\ UNCHANGED <<cnpjInput, cnpj, errorCadastro>>

\* consultarCNPJ after the await, promise rejected: the catch block, in which
\* extrairMensagemErro may throw before setError runs, and the finally block
consultarCNPJCatch(i) ==
    LET call == consultas[i]
        mensagemErro == extrairMensagemErro(call.resp.err)
    IN
    /\ call.resp.status = "erro"
    /\ errorCadastro' = IF mensagemErro = TypeError THEN errorCadastro ELSE mensagemErro
    /\ loadingCadastro' = FALSE
    /\ consultas' = Remove(consultas, i)
    /\ UNCHANGED <<cnpjInput, cnpj, step, dadosReceita, formData>>

\* the operator and the registry ---------------------------------------------

PressionarConsultar ==
    /\ step = 1
    /\ gesto' = "consultar"
    /\ IF ConsultarDisabled THEN UNCHANGED cadastroVars ELSE consultarCNPJ
    /\ UNCHANGED <<uploadVars, demaisVars>>

\* the Voltar button of step 2
Voltar ==
    /\ step = 2
    /\ Truthy(dadosReceita)
    /\ gesto' = "voltar"
    /\ step' = 1
    /\ UNCHANGED <<cnpjInput, cnpj, dadosReceita, loadingCadastro, errorCadastro,
                   formData, consultas>>
    /\ UNCHANGED <<uploadVars, demaisVars>>

ReceitaResponde(i) ==
    /\ consultas[i].resp = Pendente
    /\ \E r \in RespostasConsulta :
           consultas' = [consultas EXCEPT ![i].resp = r]
    /\ UNCHANGED <<cnpjInput, cnpj, step, dadosReceita, loadingCadastro,
                   errorCadastro, formData, gesto>>
    /\ UNCHANGED <<uploadVars, demaisVars>>

RespostaReceita == \E i \in DOMAIN consultas : ReceitaResponde(i)

ThenConsulta ==
    \E i \in DOMAIN consultas :
        consultas[i].resp # Pendente /\ consultarCNPJThen(i)
            /\ UNCHANGED <<gesto, uploadVars, demaisVars>>

CatchConsulta ==
    \E i \in DOMAIN consultas :
        consultas[i].resp # Pendente /\ consultarCNPJCatch(i)
            /\ UNCHANGED <<gesto, uploadVars, demaisVars>>

NextCadastro ==
    \/ \E texto \in Colagens : Colar(texto)
    \/ PressionarConsultar
    \/ RespostaReceita
    \/ ThenConsulta
    \/ CatchConsulta
    \/ Voltar

SpecCadastro == InitCadastro /\ [][NextCadastro]_vars

\* a step in which the Consultar button was pressed while enabled, so that
\* consultarCNPJ ran
Consultou == gesto' = "consultar" /\ step = 1 /\ ~ConsultarDisabled

\* C13: a lookup is issued only for an identifier of exactly 14 digits; for
\* any other digit count consultarCNPJ sets the invalid-identifier error,
\* issues no request, stays on step 1 and leaves loading false.
C13_LookupOnlyFor14Digits ==
    /\ [](\A i \in DOMAIN consultas :
              /\ Len(consultas[i].cnpj) = TamanhoCNPJ
              /\ DigitosDe(consultas[i].cnpj) = consultas[i].cnpj)
    /\ [][(Consultou /\ Len(DigitosDe(cnpj)) # TamanhoCNPJ) =>
              /\ errorCadastro' = MsgCnpjInvalido
              /\ consultas' = consultas
              /\ step' = 1
              /\ ~loadingCadastro']_vars
    /\ [][Len(consultas') > Len(consultas) =>
              /\ Consultou
              /\ Len(DigitosDe(cnpj)) = TamanhoCNPJ
              /\ consultas' = Append(consultas, consultas'[Len(consultas')])
              /\ consultas'[Len(consultas')].cnpj = DigitosDe(cnpj)]_vars

C13_Witness ==
    /\ gesto = "consultar"
    /\ Len(DigitosDe(cnpj)) > TamanhoCNPJ
    /\ errorCadastro = MsgCnpjInvalido
    /\ consultas = <<>>
    /\ step = 1
    /\ ~loadingCadastro

\* a step in which the answer of a lookup was applied to the form
Populou == dadosReceita' # dadosReceita \/ (step = 1 /\ step' = 2)

\* the secondary activities of an answer, none when the field is absent
SecundariosDe(dados) ==
    LET s == Get(dados, "cnaes_secundarios")
    IN  IF s.t = "array" THEN s.v ELSE <<>>

TemPrincipal(dados) == Get(dados, "cnae_principal").t = "object"

\* C17: for every lookup answer the auto-populated list is the entry of the
\* primary activity, when there is one, followed by the entries of the first
\* min(5, n) of the n secondary activities in their order; it has at most 6
\* entries, and dropping the rest raises no error: the form goes to step 2
\* with no error message.
C17_PrimaryThenFiveSecondaries ==
    [][Populou =>
          LET dados == dadosReceita'
              lista == formData'.cnaes_permitidos
              sec == SecundariosDe(dados)
              k == Min(LimiteSecundarios, Len(sec))
              off == IF TemPrincipal(dados) THEN 1 ELSE 0
          IN  /\ Len(lista) = off + k
              /\ Len(lista) <= LimiteSecundarios + 1
              /\ off = 1 => lista[1] = EntradaCNAE(Get(dados, "cnae_principal"))
              /\ \A j \in 1..k : lista[off + j] = EntradaCNAE(sec[j])
              /\ step' = 2
              /\ errorCadastro' = Str("")]_vars

C17_Witness ==
    /\ step = 2
    /\ TemPrincipal(dadosReceita)
    /\ Len(SecundariosDe(dadosReceita)) > LimiteSecundarios
    /\ Len(formData.cnaes_permitidos) = LimiteSecundarios + 1
    /\ formData.cnaes_permitidos[LimiteSecundarios + 1].cnae_codigo = Str("6200005")
    /\ errorCadastro = Str("")

\* the activities of an answer that the form takes, in the order of the list
FontesDe(dados) ==
    (IF TemPrincipal(dados) THEN <<Get(dados, "cnae_principal")>> ELSE <<>>)
        \o SubSeq(SecundariosDe(dados), 1,
                  Min(LimiteSecundarios, Len(SecundariosDe(dados))))

Ausente(x) == x.t \in {"undefined", "null"}

\* the string representation of a source code, numeric or string
RepresentacaoDe(codigo) ==
    IF codigo.t = "number" THEN Str(ToString(codigo.v)) ELSE codigo

\* C18 (as claimed): every auto-populated entry has as code the string
\* representation of the source code whatever its type, the numeric value 0
\* included, has the empty string as code or description when the source
\* field is absent or null, and has the empty string as service code.
C18_EntriesAreStrings ==
    dadosReceita # Null =>
        LET fontes == FontesDe(dadosReceita)
            lista == formData.cnaes_permitidos
        IN  /\ Len(lista) = Len(fontes)
            /\ \A j \in DOMAIN fontes :
                   LET codigo == Get(fontes[j], "codigo")
                       descricao == Get(fontes[j], "descricao")
                   IN  /\ lista[j].cnae_codigo =
                              (IF Ausente(codigo) THEN Str("") ELSE RepresentacaoDe(codigo))
                       /\ lista[j].descricao =
                              (IF Ausente(descricao) THEN Str("") ELSE descricao)
                       /\ lista[j].codigo_servico_municipal = Str("")

\* the failures the lookups in flight have been answered with
FalhasRecebidas ==
    {consultas[i].resp.err : i \in {j \in DOMAIN consultas :
                                        consultas[j].resp # Pendente
                                        /\ consultas[j].resp.status = "erro"}}

\* C19 (as claimed): extrairMensagemErro returns a plain string for every
\* failure value, the degenerate ones included; it never returns undefined
\* or a structured value and never throws, so the error the form holds is
\* always a string.
C19_NormalizerReturnsString ==
    /\ \A f \in FalhasRecebidas : extrairMensagemErro(f).t = "string"
    /\ errorCadastro.t = "string"

\* '<dot-joined location>: <message>', the prefix omitted without location
EntradaEsperada(e) ==
    IF e.t = "string" THEN e.v
    ELSE LET loc == Get(e, "loc")
             prefixo == IF loc.t = "array"
                        THEN JoinStr([i \in DOMAIN loc.v |-> TextoDe(loc.v[i])], ".") \o ": "
                        ELSE ""
         IN  prefixo \o Get(e, "msg").v

\* a validation entry: a string, or an object with a message
EntradaBemFormada(e) ==
    e.t = "string" \/ (e.t = "object" /\ Get(e, "msg").t = "string")

\* what the six rules say of the result r for the failure f, first match
\* winning; they say nothing of a failure with neither response nor message,
\* of an absent body, or of a list with an entry that is no validation entry
SeisRegras(f, r) ==
    LET data == Get(f.response, "data")
        detail == Get(data, "detail")
    IN  IF f.response.t # "object" THEN f.message.t = "string" => r = f.message
        ELSE IF data.t = "string" THEN r = data
        ELSE IF detail.t = "array"
             THEN (\A i \in DOMAIN detail.v : EntradaBemFormada(detail.v[i]))
                      => r = Str(JoinStr([i \in DOMAIN detail.v |->
                                             EntradaEsperada(detail.v[i])], "; "))
        ELSE IF detail.t = "string" THEN r = detail
        ELSE IF ~Ausente(detail) THEN r = Str(JsonText(detail))
        ELSE ~Ausente(data) => r = Str(JsonText(data))

\* C20 (as claimed): for every failure value extrairMensagemErro returns what
\* the six-rule resolution order yields: the transport message without a
\* response, a string body verbatim, the joined entries of a detail list, a
\* string detail verbatim (the empty string included), the serialized detail
\* for any other detail value, and the serialized body only without detail.
C20_SixRuleResolution ==
    \A f \in FalhasRecebidas : SeisRegras(f, extrairMensagemErro(f))

\* ---------------------------------------------------------------------------
\* utils/pdfGenerator.js and the PDF button of ListaNotas
\* ---------------------------------------------------------------------------

\* files the operator saves before the browser is closed
MaxDownloads == 2

\* readings of the clock
MaxRelogio == 1

\* x || padrao
Ou(x, padrao) == IF Truthy(x) THEN x ELSE padrao

DoisDigitos(n) == IF n < 10 THEN "0" \o ToString(n) ELSE ToString(n)

TresDigitos(n) == IF n < 100 THEN "0" \o DoisDigitos(n) ELSE ToString(n)

\* the pt-BR grouping of the integer part
RECURSIVE Milhar(_)
Milhar(n) ==
    IF n < 1000 THEN ToString(n)
    ELSE Milhar(n \div 1000) \o "." \o TresDigitos(n % 1000)

\* Intl.NumberFormat('pt-BR', {style: 'currency', currency: 'BRL'}).format,
\* amounts being kept in centavos
Moeda(centavos) ==
    "R$ " \o Milhar(centavos \div 100) \o "," \o DoisDigitos(centavos % 100)

formatCurrency(value) ==
    IF ~Truthy(value) /\ value # Num(0) THEN Str("R$ 0,00") ELSE Str(Moeda(value.v))

\* a date-time string 'yyyy-mm-ddThh:mm:ss', which new Date() reads as local time
DataIso(s) ==
    /\ Len(s) = 19
    /\ \A i \in {1, 2, 3, 4, 6, 7, 9, 10} : IsDigit(s[i])
    /\ s[5] = "-" /\ s[8] = "-" /\ s[11] = "T"

\* new Date(dateString).toLocaleDateString('pt-BR', ...): no exception is
\* thrown for a string that is no date
formatDate(dateString) ==
    IF ~Truthy(dateString) THEN Str("N/A")
    ELSE IF DataIso(dateString.v)
         THEN Str(JoinStr(SubSeq(dateString.v, 9, 10) \o <<"/">>
                          \o SubSeq(dateString.v, 6, 7) \o <<"/">>
                          \o SubSeq(dateString.v, 1, 4), ""))
    ELSE Str("Invalid Date")

MsgLegado == Str("Nao informado (XML Legado)")
NaoDisponivel == Str("N/A")
DescricaoPadrao == Str("Servicos conforme contrato")
InfoPadrao == Str("Nota Fiscal emitida nos termos da Lei Complementar Federal 116/2003")

\* the rows of the service table, the tax base being the given cell
LinhasServico(notaData, base) ==
    << <<"Codigo do Servico", Ou(Get(notaData, "codigo_servico_utilizado"), NaoDisponivel)>>,
       <<"Descricao", Ou(Get(notaData, "descricao_servico"), DescricaoPadrao)>>,
       <<"Valor dos Servicos", formatCurrency(Get(notaData, "valor_total"))>>,
       <<"Base de Calculo", base>>,
       <<"Aliquota ISS", IF Truthy(Get(notaData, "aliquota"))
                         THEN Str(TextoDe(Get(notaData, "aliquota")) \o "%")
                         ELSE NaoDisponivel>>,
       <<"Valor do ISS", formatCurrency(Ou(Get(notaData, "valor_iss"), Num(0)))>>,
       <<"Outras Deducoes", formatCurrency(Ou(Get(notaData, "deducoes"), Num(0)))>> >>

\* formatCurrency(notaData.base_calculo || notaData.valor_total)
CelulaBase(notaData) ==
    formatCurrency(Ou(Get(notaData, "base_calculo"), Get(notaData, "valor_total")))

\* a document that always carries the verification strip
ChaveSempre(notaData) == <<[secao |-> "chave", codigo |-> Get(notaData, "chave_validacao")]>>

\* if (notaData.chave_validacao) { ... }
SecaoChave(notaData) ==
    IF Truthy(Get(notaData, "chave_validacao"))
    THEN <<[secao |-> "chave", codigo |-> Get(notaData, "chave_validacao")]>>
    ELSE <<>>

\* a file name that keeps the issue date as it is
DataDoArquivoCrua(notaData) ==
    LET d == Get(notaData, "data_emissao")
    IN  IF d.t = "text" /\ d.v # <<>> THEN JoinStr(d.v, "") ELSE "sem_data"

\* notaData.data_emissao?.replace(/[^0-9]/g, '') || 'sem_data'
DataDoArquivo(notaData) ==
    LET d == Get(notaData, "data_emissao")
        digitos == IF d.t = "text" THEN JoinStr(SelectSeq(d.v, IsDigit), "") ELSE ""
    IN  IF digitos # "" THEN digitos ELSE "sem_data"

FileName(notaData) ==
    "NFSe_" \o TextoDe(Ou(Get(notaData, "numero_nota"), Str("SEM_NUMERO")))
        \o "_" \o DataDoArquivo(notaData) \o ".pdf"

\* the sections drawn top to bottom, and the name the file is saved under;
\* agora is the clock reading printed in the footer
generateInvoicePDF(notaData, agora) ==
    [fileName |-> FileName(notaData),
     doc |->
        << [secao |-> "cabecalho",
            numero |-> Ou(Get(notaData, "numero_nota"), NaoDisponivel),
            data |-> formatDate(Get(notaData, "data_emissao"))],
           [secao |-> "prestador",
            linhas |-> << <<"CNPJ", Ou(Get(notaData, "cnpj_prestador"), MsgLegado)>>,
                          <<"Inscricao Municipal",
                            Ou(Get(notaData, "inscricao_municipal"), NaoDisponivel)>> >>],
           [secao |-> "tomador",
            linhas |-> << <<"CNPJ/CPF", Ou(Get(notaData, "cnpj_tomador"), NaoDisponivel)>>,
                          <<"Nome/Razao Social",
                            Ou(Get(notaData, "tomador_nome"), NaoDisponivel)>> >>],
           [secao |-> "servico",
            linhas |-> LinhasServico(notaData, CelulaBase(notaData))],
           [secao |-> "valorLiquido",
            valor |-> formatCurrency(Get(notaData, "valor_total"))],
           [secao |-> "informacoes",
            texto |-> Ou(Get(notaData, "informacoes_adicionais"), InfoPadrao)] >>
        \o SecaoChave(notaData)
        \o << [secao |-> "rodape", geradoEm |-> agora] >>]

\* the invoices of the list -------------------------------------------------

DataCompleta == <<"2", "0", "2", "4", "-", "0", "3", "-", "1", "5", "T",
                  "1", "0", ":", "3", "0", ":", "0", "0">>

NotaCompleta ==
    [numero_nota |-> Str("1024"),
     data_emissao |-> Txt(DataCompleta),
     cnpj_prestador |-> Str("11.222.333/0001-81"),
     inscricao_municipal |-> Str("45678"),
     cnpj_tomador |-> Str("44.555.666/0001-09"),
     tomador_nome |-> Str("Cliente SA"),
     codigo_servico_utilizado |-> Str("1.05"),
     descricao_servico |-> Str("Licenciamento de software"),
     valor_total |-> Num(123450),
     base_calculo |-> Num(100000),
     aliquota |-> Num(5),
     valor_iss |-> Num(5000),
     deducoes |-> Num(23450),
     informacoes_adicionais |-> Str("Pagamento em 30 dias"),
     chave_validacao |-> Str("ABCD-1234")]

Campos == DOMAIN NotaCompleta

CamposMonetarios == {"valor_total", "base_calculo", "valor_iss", "deducoes"}

Sem(S) == [k \in Campos \ S |-> NotaCompleta[k]]

\* the empty value of a field
Vazio(k) ==
    IF k \in CamposMonetarios \cup {"aliquota"} THEN Num(0)
    ELSE IF k = "data_emissao" THEN Txt(<<>>)
    ELSE Str("")

NotasFiscais ==
    {Obj(Sem(S)) : S \in {T \in SUBSET Campos : Cardinality(T) <= 2}}
        \cup {Obj([NotaCompleta EXCEPT ![k] = v]) : k \in Campos, v \in {Null} }
        \cup {Obj([NotaCompleta EXCEPT ![k] = Vazio(k)]) : k \in Campos}
        \cup {Obj([NotaCompleta EXCEPT !.data_emissao = Txt(d)]) :
                 d \in {<<"s", "e", "m", " ", "d", "a", "t", "a">>,
                        <<"1", "5", "/", "0", "3", "/", "2", "0", "2", "4">>}}

OutraNota ==
    Obj([NotaCompleta EXCEPT !.numero_nota = Str("1025"), !.valor_total = Num(99),
                             !.base_calculo = Num(99)])

\* the PDF button ------------------------------------------------------------

\* a renderer that writes its placeholders into the invoice
NotaAposRenderPreenchida(nota) ==
    Obj([k \in DOMAIN nota.v \cup {"numero_nota"} |->
            IF k = "numero_nota" THEN Ou(Get(nota, "numero_nota"), NaoDisponivel)
            ELSE nota.v[k]])

\* the invoice after generateInvoicePDF(nota): it is only read
NotaAposRender(nota) == nota

\* handleDownloadPDF: generateInvoicePDF throws for no invoice of the list,
\* so the catch block is not entered
handleDownloadPDF(i) ==
    /\ downloads' = Append(downloads, generateInvoicePDF(notas[i], relogio))
    /\ notas' = [notas EXCEPT ![i] = NotaAposRender(notas[i])]
    /\ toast' = [show |-> TRUE,
                 message |-> "PDF da nota #" \o TextoDe(Get(notas[i], "numero_nota"))
                                \o " gerado com sucesso!",
                 type |-> "success"]
    /\ UNCHANGED relogio

BaixarPDF ==
    \E i \in DOMAIN notas :
        /\ ~loadingNotas
        /\ Len(downloads) < MaxDownloads
        /\ gesto' = "pdf"
        /\ handleDownloadPDF(i)
        /\ UNCHANGED <<uploadVars, cadastroVars, painelVars, sessaoVars>>

Tick ==
    /\ relogio < MaxRelogio
    /\ relogio' = relogio + 1
    /\ UNCHANGED <<notas, toast, downloads, gesto>>
    /\ UNCHANGED <<uploadVars, cadastroVars, painelVars, sessaoVars>>

\* the list once carregarNotas has filled it
InitPDF ==
    /\ InitSemNotas
    /\ empresaId = 1
    /\ loadingNotas = FALSE
    /\ \E n \in NotasFiscais : notas = <<n, OutraNota>>

NextPDF == BaixarPDF \/ Tick

SpecPDF == InitPDF /\ [][NextPDF]_vars

\* a step in which a document was saved
Salvou == downloads' # downloads

\* the file saved by the step
Novo == downloads'[Len(downloads')]

\* the names of the sections of a document, top to bottom
SecoesDe(doc) == [i \in DOMAIN doc |-> doc[i].secao]

ChaveNaoVazia(nota) ==
    LET c == Get(nota, "chave_validacao") IN c.t = "string" /\ c.v # ""

\* C21: every document has its sections in the fixed order header, provider
\* table, recipient table, seven-row service table, net-value banner,
\* additional information, verification strip, footer; the strip is there
\* exactly when the verification key of the invoice is not empty, and every
\* other section always is.
C21_SectionsInFixedOrder ==
    [][Salvou =>
          \E i \in DOMAIN notas :
              /\ Novo = generateInvoicePDF(notas[i], relogio)
              /\ SecoesDe(Novo.doc) =
                     <<"cabecalho", "prestador", "tomador", "servico", "valorLiquido",
                       "informacoes">>
                     \o (IF ChaveNaoVazia(notas[i]) THEN <<"chave">> ELSE <<>>)
                     \o <<"rodape">>
              /\ Len(Novo.doc[4].linhas) = 7]_vars

C21_Witness ==
    /\ Len(downloads) = 2
    /\ Get(notas[1], "chave_validacao") = Str("")
    /\ SecoesDe(downloads[1].doc)[7] = "rodape"
    /\ SecoesDe(downloads[2].doc)[7] = "chave"

\* what a money cell shows for its own source field: the zero amount when the
\* field is absent or null, its amount otherwise
CelulaMonetaria(nota, campo) ==
    IF Ausente(Get(nota, campo)) THEN Str("R$ 0,00")
    ELSE Str(Moeda(Get(nota, campo).v))

\* C22 (as claimed): every money cell of the document (gross value, tax base,
\* tax value, deductions, net-value banner) shows 'R$ 0,00' when its own
\* source field is absent or null, and its own amount otherwise; an absent
\* tax base is rendered as zero.
C22_MoneyCellsDefaultToZero ==
    [][Salvou =>
          \E i \in DOMAIN notas :
              /\ Novo = generateInvoicePDF(notas[i], relogio)
              /\ Novo.doc[4].linhas[3][2] = CelulaMonetaria(notas[i], "valor_total")
              /\ Novo.doc[4].linhas[4][2] = CelulaMonetaria(notas[i], "base_calculo")
              /\ Novo.doc[4].linhas[6][2] = CelulaMonetaria(notas[i], "valor_iss")
              /\ Novo.doc[4].linhas[7][2] = CelulaMonetaria(notas[i], "deducoes")
              /\ Novo.doc[5].valor = CelulaMonetaria(notas[i], "valor_total")]_vars

\* the placeholder of the claim
Indisponivel == Str("N/A")

\* the cell of an absent source field is the placeholder
CelulaTexto(nota, campo, celula) ==
    Ausente(Get(nota, campo)) => celula = Indisponivel

\* C23 (as claimed): every absent non-monetary field (document number, issue
\* date, provider tax id, provider municipal registration, recipient tax id,
\* recipient name, service code, service description, tax rate) is rendered
\* as one and the same 'not available' placeholder.
C23_AbsentFieldsShowOnePlaceholder ==
    [][Salvou =>
          \E i \in DOMAIN notas :
              /\ Novo = generateInvoicePDF(notas[i], relogio)
              /\ CelulaTexto(notas[i], "numero_nota", Novo.doc[1].numero)
              /\ CelulaTexto(notas[i], "data_emissao", Novo.doc[1].data)
              /\ CelulaTexto(notas[i], "cnpj_prestador", Novo.doc[2].linhas[1][2])
              /\ CelulaTexto(notas[i], "inscricao_municipal", Novo.doc[2].linhas[2][2])
              /\ CelulaTexto(notas[i], "cnpj_tomador", Novo.doc[3].linhas[1][2])
              /\ CelulaTexto(notas[i], "tomador_nome", Novo.doc[3].linhas[2][2])
              /\ CelulaTexto(notas[i], "codigo_servico_utilizado", Novo.doc[4].linhas[1][2])
              /\ CelulaTexto(notas[i], "descricao_servico", Novo.doc[4].linhas[2][2])
              /\ CelulaTexto(notas[i], "aliquota", Novo.doc[4].linhas[5][2])]_vars

\* the document number of the file name
NumeroDoNome(nota) ==
    LET n == Get(nota, "numero_nota")
    IN  IF Ausente(n) \/ n = Str("") THEN "SEM_NUMERO" ELSE n.v

\* the issue date of the file name
DataDoNome(nota) ==
    LET d == Get(nota, "data_emissao")
    IN  IF d.t = "text" /\ DigitosDe(d.v) # <<>>
        THEN JoinStr(DigitosDe(d.v), "") ELSE "sem_data"

\* C24: the suggested file name is 'NFSe_<N>_<D>.pdf', N being the document
\* number, or SEM_NUMERO when it is absent or empty, and D the issue date
\* without its non-digit characters, or sem_data when the date is absent or
\* has no digit.
C24_FileName ==
    [][Salvou =>
          \E i \in DOMAIN notas :
              /\ Novo = generateInvoicePDF(notas[i], relogio)
              /\ Novo.fileName = "NFSe_" \o NumeroDoNome(notas[i]) \o "_"
                                     \o DataDoNome(notas[i]) \o ".pdf"]_vars

C24_Witness ==
    /\ Len(downloads) = 2
    /\ Get(notas[1], "data_emissao").t = "text"
    /\ Get(notas[1], "data_emissao").v # <<>>
    /\ downloads[1].fileName = "NFSe_1024_sem_data.pdf"
    /\ downloads[2].fileName = "NFSe_1025_20240315103000.pdf"

\* C25: rendering an invoice leaves the invoice, the notes list, the
\* statistics and the selected company as they were and issues no request;
\* every saved document is what generateInvoicePDF yields for one invoice of
\* the list and one reading of the clock, whatever was rendered before it.
C25_RenderingHasNoSideEffect ==
    /\ [][Salvou =>
              /\ notas' = notas
              /\ UNCHANGED <<estatisticas, empresaId, localStorage>>
              /\ UNCHANGED <<pedidos, inflight, consultas>>
              /\ downloads' = Append(downloads, Novo)
              /\ \E i \in DOMAIN notas : Novo = generateInvoicePDF(notas[i], relogio)]_vars
    /\ [](\A d \in DOMAIN downloads :
              \E i \in DOMAIN notas, t \in 0..relogio :
                  downloads[d] = generateInvoicePDF(notas[i], t))

C25_Witness ==
    /\ Len(downloads) = 2
    /\ downloads[1] = generateInvoicePDF(notas[2], 0)
    /\ downloads[2] = generateInvoicePDF(notas[1], 1)
    /\ Get(notas[1], "numero_nota") = Undefined

\* ---------------------------------------------------------------------------
\* The per-company panels: ListaNotas, MonitorRBT12, ImpostoEstimado
\* ---------------------------------------------------------------------------

\* requests of the panels that may be outstanding at once
MaxPedidos == 5

Paineis == <<"notas", "estatisticas", "metricas", "imposto">>

\* what the endpoints answer for the company e
DadosDaEmpresa(painel, e) ==
    IF painel = "notas"
    THEN Arr(<<Obj([numero_nota |-> Str(ToString(1000 + e)), empresa_id |-> IdDe(e)])>>)
    ELSE Obj([empresa_id |-> IdDe(e)])

RespostasPainel(pedido) ==
    { [status |-> "ok", data |-> DadosDaEmpresa(pedido.painel, pedido.empresaId)],
      [status |-> "erro", err |-> [response |-> Undefined,
                                   message |-> Str("Network Error")]],
      [status |-> "erro", err |-> FalhaHttp(Obj([detail |-> Str("Empresa nao encontrada")]))] }

\* the requests carregarNotas, carregarEstatisticas, carregarMetricas and
\* carregarDados issue, each with the empresaId of the render that called it
PedidosDe(e) ==
    [i \in DOMAIN Paineis |-> [painel |-> Paineis[i], empresaId |-> e]]

\* the useEffect of the three components when the prop empresaId changes to e
useEffectPaineis(e) ==
    /\ notas' = <<>>
    /\ estatisticas' = Null
    /\ loadingNotas' = TRUE
    /\ metricas' = Null
    /\ loadingMonitor' = TRUE
    /\ errorMonitor' = Str("")
    /\ dadosImposto' = Null
    /\ loadingImposto' = TRUE
    /\ errorImposto' = Str("")
    /\ pedidos' = pedidos \o PedidosDe(e)

\* err.response?.data?.detail || padrao
DetalheOu(err, padrao) ==
    Ou(Get(Get(err.response, "data"), "detail"), padrao)

\* the request i settles with resp and its continuation runs: try, catch
\* and finally. No request is cancelled and no answer is compared with the
\* current prop
PainelRetoma(i, resp) ==
    LET pedido == pedidos[i]
        ok == resp.status = "ok"
        falhou == resp.status = "erro"
        fim == TRUE
    IN
    /\ pedidos' = Remove(pedidos, i)
    /\ notas' = IF pedido.painel = "notas" /\ ok THEN resp.data.v ELSE notas
    /\ loadingNotas' = IF pedido.painel = "notas" /\ fim THEN FALSE ELSE loadingNotas
    /\ estatisticas' = IF pedido.painel = "estatisticas" /\ ok
                       THEN resp.data ELSE estatisticas
    /\ metricas' = IF pedido.painel = "metricas" /\ ok THEN resp.data ELSE metricas
    /\ errorMonitor' = IF pedido.painel = "metricas" /\ falhou
                       THEN DetalheOu(resp.err, Str("Erro ao carregar metricas"))
                       ELSE errorMonitor
    /\ loadingMonitor' = IF pedido.painel = "metricas" /\ fim THEN FALSE ELSE loadingMonitor
    /\ dadosImposto' = IF pedido.painel = "imposto" /\ ok
                       THEN resp.data ELSE dadosImposto
    /\ errorImposto' = IF pedido.painel = "imposto" /\ falhou
                       THEN DetalheOu(resp.err, Str("Erro ao carregar dados"))
                       ELSE errorImposto
    /\ loadingImposto' = IF pedido.painel = "imposto" /\ fim THEN FALSE ELSE loadingImposto

\* onClick of a company card, the three panels included
SelecionarEmpresa(e) ==
    /\ Len(pedidos) + Len(Paineis) <= MaxPedidos
    /\ SelecaoNoDashboard(e)
    /\ IF e # empresaId THEN useEffectPaineis(e) ELSE UNCHANGED <<painelVars, notas>>
    /\ UNCHANGED <<toast, downloads, relogio>>

Selecionar == \E e \in Empresas : SelecionarEmpresa(e)

RetomaPainel ==
    \E i \in DOMAIN pedidos :
        \E resp \in RespostasPainel(pedidos[i]) :
            /\ PainelRetoma(i, resp)
            /\ UNCHANGED <<uploadVars, gesto, cadastroVars, toast, downloads, relogio,
                           sessaoVars>>

\* the panels as mounted for the company restored or selected first
InitPaineis ==
    /\ InitSemPaineis
    /\ InitPaineisVazios
    /\ notas = <<>>
    /\ loadingNotas = TRUE
    /\ pedidos = PedidosDe(empresaId)

NextPaineis == Selecionar \/ RetomaPainel

SpecPaineis == InitPaineis /\ [][NextPaineis]_vars

\* the company a panel's data was fetched for
ParaEmpresa(x) == Get(x, "empresa_id") = IdDe(empresaId)

\* C26 (as claimed): once every outstanding request has settled, each
\* per-company panel (notes list and statistics, revenue monitor, estimated
\* tax) holds data fetched for the selected company, if it holds any: an
\* answer for a company selected before never overwrites it.
C26_PanelsShowSelectedCompany ==
    pedidos = <<>> =>
        /\ \A i \in DOMAIN notas : ParaEmpresa(notas[i])
        /\ estatisticas # Null => ParaEmpresa(estatisticas)
        /\ metricas # Null => ParaEmpresa(metricas)
        /\ dadosImposto # Null => ParaEmpresa(dadosImposto)

\* the upload component at rest
Ocioso == ~loading /\ progresso = Null

\* C27: every submission that starts is followed, once its transport call
\* has settled, by the upload component at rest again (loading false,
\* progresso null): on success, on every failure payload, and when the
\* catch block itself throws.
C27_SubmissionReturnsToIdle ==
    /\ loading ~> Ocioso
    /\ [][\A i \in DOMAIN inflight : Liquidou(i) => Ocioso']_vars

\* a submission has failed with a detail that has no includes method, the
\* catch block has thrown, and the component is at rest
C27_Witness ==
    /\ Ocioso
    /\ inflight = <<>>
    /\ error = Obj([codigo |-> "E42"])

\* ---------------------------------------------------------------------------
\* context/AuthContext.js, App.js and the company list of the Dashboard
\* ---------------------------------------------------------------------------

\* calls of the AuthProvider that may be outstanding at once
MaxPedidosAuth == 2

\* edits the backend accepts in the behaviours explored
MaxEdicoes == 2

RECURSIVE SomaAte(_, _)
SomaAte(db, n) == IF n = 0 THEN 0 ELSE db[n] + SomaAte(db, n - 1)

\* the edits made so far
Edicoes(db) == SomaAte(db, NumEmpresas)

\* what the sessions leave alone
foraDaSessao == <<refreshNotas, inflight, gesto, cadastroVars, notasVars, painelVars>>

\* how a call settles: fulfilled, rejected without a response or with a
\* status other than 401, rejected with status 401
Desfechos == {"ok", "erro", "401"}

\* PrivateRoute: the Dashboard is rendered
Visivel(u, l) == u # Null /\ ~l

\* async fetchUser up to its await, for the token t of the effect
PedidoFetchUser(t) == [tipo |-> "me", token |-> t]

\* carregarEmpresas up to its await; sel is the empresaSelecionada of the
\* render whose closure the call runs in
PedidoCarregar(sel) == [tipo |-> "get", empresaSelecionada |-> sel]

\* localStorage.removeItem('token'); localStorage.removeItem('empresaSelecionada')
ArmazenamentoAposLogout(ls) ==
    [ls EXCEPT !.token = Null, !.empresaSelecionada = Null]

\* logout(), and the same four statements of the 401 interceptor
SessaoLimpa ==
    /\ token' = Null
    /\ user' = Null
    /\ localStorage' = ArmazenamentoAposLogout(localStorage)
    /\ authorization' = Undefined

\* setEmpresaSelecionada(x) with its consequences for the props
SelecionaObjeto(x) ==
    /\ empresaSelecionada' = x
    /\ empresaId' = NumDe(x.v.id)
    /\ IF NumDe(x.v.id) # empresaId THEN useEffectEmpresaId ELSE UNCHANGED uploadState

\* the Dashboard is mounted: useState initial values, then carregarEmpresas
MontaDashboard ==
    /\ empresas' = <<>>
    /\ empresaSelecionada' = Null
    /\ empresaEditando' = Null
    /\ pedidosEmpresas' = <<PedidoCarregar(Null)>>

\* the Dashboard is unmounted: its state is gone and what its calls still
\* answer reaches no component
DesmontaDashboard ==
    /\ empresas' = <<>>
    /\ empresaSelecionada' = Null
    /\ empresaEditando' = Null
    /\ pedidosEmpresas' = <<>>

\* the routes of App.js after user and loading changed
Rotas ==
    /\ IF ~Visivel(user, loadingAuth) /\ Visivel(user', loadingAuth')
       THEN MontaDashboard
       ELSE IF Visivel(user, loadingAuth) /\ ~Visivel(user', loadingAuth')
       THEN DesmontaDashboard
       ELSE UNCHANGED <<empresas, empresaSelecionada, empresaEditando, pedidosEmpresas>>
    /\ UNCHANGED <<empresaId, uploadState, servidor, foraDaSessao>>

\* submit of the Login form: login() or register() up to its await
IniciarLogin(tipo) ==
    /\ user = Null
    /\ Len(pedidosAuth) < MaxPedidosAuth
    /\ pedidosAuth' = Append(pedidosAuth, [tipo |-> tipo, token |-> token])
    /\ UNCHANGED <<token, user, loadingAuth, authorization, navegando, localStorage>>
    /\ Rotas

\* login() and register() after the await, and the effect on [token]
LoginRetoma(i, desfecho) ==
    /\ desfecho = "ok"
    /\ token' = TokenNovo
    /\ user' = Usuario
    /\ localStorage' = [localStorage EXCEPT !.token = TokenNovo]
    /\ authorization' = Bearer(TokenNovo)
    /\ pedidosAuth' = IF token # TokenNovo
                      THEN Append(Remove(pedidosAuth, i), PedidoFetchUser(TokenNovo))
                      ELSE Remove(pedidosAuth, i)
    /\ UNCHANGED <<loadingAuth, navegando>>

\* a rejected login() or register(): the promise rejects to the form; a 401
\* goes through the interceptor first
LoginFalha(i, desfecho) ==
    /\ desfecho # "ok"
    /\ pedidosAuth' = Remove(pedidosAuth, i)
    /\ IF desfecho = "401"
       THEN /\ SessaoLimpa
            /\ navegando' = TRUE
            /\ loadingAuth' = IF token # Null THEN FALSE ELSE loadingAuth
       ELSE UNCHANGED <<token, user, localStorage, authorization, navegando,
                        loadingAuth>>

\* fetchUser after the await, rejected: the interceptor on a 401, then the
\* catch block calls logout(), then finally
FetchUserFalha(i, desfecho) ==
    /\ desfecho # "ok"
    /\ pedidosAuth' = Remove(pedidosAuth, i)
    /\ loadingAuth' = FALSE
    /\ SessaoLimpa
    /\ navegando' = (navegando \/ desfecho = "401")

\* fetchUser after the await, fulfilled
FetchUserRetoma(i, desfecho) ==
    /\ desfecho = "ok"
    /\ pedidosAuth' = Remove(pedidosAuth, i)
    /\ user' = Usuario
    /\ loadingAuth' = FALSE
    /\ UNCHANGED <<token, localStorage, authorization, navegando>>

LiquidaAuth(i, desfecho) ==
    /\ IF pedidosAuth[i].tipo = "me"
       THEN FetchUserRetoma(i, desfecho) \/ FetchUserFalha(i, desfecho)
       ELSE LoginRetoma(i, desfecho) \/ LoginFalha(i, desfecho)
    /\ Rotas

\* onClick of the logout button of the Dashboard, and the effect on [token]
Logout ==
    /\ Visivel(user, loadingAuth)
    /\ SessaoLimpa
    /\ loadingAuth' = FALSE
    /\ UNCHANGED <<pedidosAuth, navegando>>
    /\ Rotas

\* the AuthProvider after construction and its effect on [token]
AppMontado(ls) ==
    /\ token' = ls.token
    /\ user' = Null
    /\ loadingAuth' = (ls.token # Null)
    /\ authorization' = IF ls.token # Null THEN Bearer(ls.token) ELSE Undefined
    /\ pedidosAuth' = IF ls.token # Null THEN <<PedidoFetchUser(ls.token)>> ELSE <<>>
    /\ navegando' = FALSE

\* the navigation started by window.location.href = '/login': the page is
\* loaded again and only local storage survives
Recarregar ==
    /\ navegando
    /\ AppMontado(localStorage)
    /\ DesmontaDashboard
    /\ UNCHANGED <<localStorage, empresaId, uploadState, servidor, foraDaSessao>>

\* carregarEmpresas after the await, fulfilled with data
carregarEmpresasRetoma(pedido, data) ==
    LET empresaIdSalva == localStorage.empresaSelecionadaId
        empresaRestaurada == Find(data, empresaIdSalva)
    IN
    /\ empresas' = data
    /\ IF Truthy(empresaIdSalva) /\ Len(data) > 0
       THEN IF empresaRestaurada # Undefined
            THEN SelecionaObjeto(empresaRestaurada)
            ELSE SelecionaObjeto(data[1])
       ELSE IF Len(data) > 0 /\ pedido.empresaSelecionada = Null
       THEN SelecionaObjeto(data[1])
       ELSE UNCHANGED <<empresaSelecionada, empresaId, uploadState>>

\* the 401 interceptor on a call of the Dashboard
Intercepta401 ==
    /\ SessaoLimpa
    /\ navegando' = TRUE
    /\ loadingAuth' = FALSE
    /\ UNCHANGED pedidosAuth

\* a call of carregarEmpresas settles
LiquidaCarregar(i, desfecho) ==
    /\ pedidosEmpresas[i].tipo = "get"
    /\ IF desfecho = "ok"
       THEN /\ carregarEmpresasRetoma(pedidosEmpresas[i], ListaDoServidor(servidor))
            /\ pedidosEmpresas' = Remove(pedidosEmpresas, i)
            /\ UNCHANGED <<empresaEditando, servidor, localStorage, authVars,
                           foraDaSessao>>
       ELSE IF desfecho = "401"
       THEN /\ Intercepta401
            /\ Rotas
       ELSE /\ pedidosEmpresas' = Remove(pedidosEmpresas, i)
            /\ UNCHANGED <<empresas, empresaSelecionada, empresaEditando, servidor,
                           localStorage, authVars, empresaId, uploadState,
                           foraDaSessao>>

\* onClick of the edit button of a company card
AbrirEdicao(e) ==
    /\ Find(empresas, IdDe(e)) # Undefined
    /\ empresaEditando = Null
    /\ empresaEditando' = Find(empresas, IdDe(e))
    /\ UNCHANGED <<empresas, empresaSelecionada, servidor, pedidosEmpresas,
                   localStorage, authVars, empresaId, uploadState, foraDaSessao>>

\* handleSubmit of ModalEditarEmpresa up to its await; onSuccess is the
\* closure of the Dashboard render the modal was rendered by
EnviarEdicao ==
    /\ empresaEditando # Null
    /\ \A i \in DOMAIN pedidosEmpresas : pedidosEmpresas[i].tipo # "put"
    /\ Edicoes(servidor) < MaxEdicoes
    /\ pedidosEmpresas' = Append(pedidosEmpresas,
            [tipo |-> "put",
             empresas |-> empresas,
             empresaSelecionada |-> empresaSelecionada,
             empresaEditando |-> empresaEditando])
    /\ UNCHANGED <<empresas, empresaSelecionada, empresaEditando, servidor,
                   localStorage, authVars, empresaId, uploadState, foraDaSessao>>

\* onSuccess: empresas.find(e => e.id === empresaEditando.id) in the list of
\* the closure, handed to setEmpresaSelecionada
SelecaoAposEdicao(pedido) ==
    IF /\ pedido.empresaSelecionada # Null
       /\ pedido.empresaSelecionada.v.id = pedido.empresaEditando.v.id
       /\ Find(pedido.empresas, pedido.empresaEditando.v.id) # Undefined
    THEN Find(pedido.empresas, pedido.empresaEditando.v.id)
    ELSE empresaSelecionada

\* handleSubmit after the await: onSuccess() and onClose() when the PUT was
\* fulfilled, setError in the modal otherwise
LiquidaEdicao(i, desfecho) ==
    LET pedido == pedidosEmpresas[i] IN
    /\ pedido.tipo = "put"
    /\ IF desfecho = "ok"
       THEN /\ servidor' = [servidor EXCEPT ![NumDe(pedido.empresaEditando.v.id)] = @ + 1]
            /\ pedidosEmpresas' = Append(Remove(pedidosEmpresas, i),
                                         PedidoCarregar(pedido.empresaSelecionada))
            /\ SelecionaObjeto(SelecaoAposEdicao(pedido))
            /\ empresaEditando' = Null
            /\ UNCHANGED <<empresas, localStorage, authVars, foraDaSessao>>
       ELSE IF desfecho = "401"
       THEN /\ Intercepta401
            /\ Rotas
       ELSE /\ pedidosEmpresas' = Remove(pedidosEmpresas, i)
            /\ UNCHANGED <<empresas, empresaSelecionada, empresaEditando, servidor,
                           localStorage, authVars, empresaId, uploadState,
                           foraDaSessao>>

\* onClose of the modal
FecharEdicao ==
    /\ empresaEditando # Null
    /\ empresaEditando' = Null
    /\ UNCHANGED <<empresas, empresaSelecionada, servidor, pedidosEmpresas,
                   localStorage, authVars, empresaId, uploadState, foraDaSessao>>

Entrar == \E tipo \in {"login", "registro"} : IniciarLogin(tipo)

RespostaAuth ==
    \E i \in DOMAIN pedidosAuth : \E d \in Desfechos : LiquidaAuth(i, d)

RespostaCarregar ==
    \E i \in DOMAIN pedidosEmpresas : \E d \in Desfechos : LiquidaCarregar(i, d)

RespostaEdicao ==
    \E i \in DOMAIN pedidosEmpresas : \E d \in Desfechos : LiquidaEdicao(i, d)

Editar == \E e \in Empresas : AbrirEdicao(e)

Clicar == \E e \in Empresas : handleSelecionarEmpresa(e)

\* the page is opened with what an earlier session left in local storage
InitSessao ==
    /\ InitSemSessao
    /\ InitPaineisVazios
    /\ notas = <<>>
    /\ loadingNotas = TRUE
    /\ pedidos = <<>>
    /\ empresaId = 1
    /\ \E t \in {Null, TokenAntigo} :
           /\ localStorage = [token |-> t, empresaSelecionada |-> Null,
                              empresaSelecionadaId |-> Null]
           /\ token = t
           /\ user = Null
           /\ loadingAuth = (t # Null)
           /\ authorization = IF t # Null THEN Bearer(t) ELSE Undefined
           /\ pedidosAuth = IF t # Null THEN <<PedidoFetchUser(t)>> ELSE <<>>
    /\ navegando = FALSE
    /\ servidor = [e \in Empresas |-> 0]
    /\ empresas = <<>>
    /\ empresaSelecionada = Null
    /\ empresaEditando = Null
    /\ pedidosEmpresas = <<>>

\* the sessions: opening, ending, and the selection that outlives them
NextSessao ==
    \/ Entrar
    \/ RespostaAuth
    \/ Logout
    \/ Recarregar
    \/ RespostaCarregar
    \/ Clicar

SpecSessao == InitSessao /\ [][NextSessao]_vars

\* the Dashboard of an open session with its list loaded
InitEdicao == Init

\* the company list of one session: selecting and editing
NextEdicao ==
    \/ Clicar
    \/ Editar
    \/ EnviarEdicao
    \/ RespostaEdicao
    \/ FecharEdicao
    \/ RespostaCarregar
    \/ Recarregar

SpecEdicao == InitEdicao /\ [][NextEdicao]_vars

\* a step that ends the session: logout() or the 401 interceptor
EncerrouSessao == localStorage.token # Null /\ localStorage'.token = Null

\* C28 (as claimed): after logout, or after a response with status 401 is
\* intercepted, the selected-company id that handleSelecionarEmpresa wrote
\* is no longer in local storage.
C28_LogoutForgetsSelectedCompany ==
    [][EncerrouSessao => localStorage'.empresaSelecionadaId = Null]_vars

\* the session login() and register() establish
SessaoEstabelecida ==
    /\ token = TokenNovo
    /\ user = Usuario
    /\ localStorage.token = TokenNovo
    /\ authorization = Bearer(TokenNovo)

\* the step in which the fetchUser call i, started for a token that is no
\* longer the current one, settles
LiquidouFetchUserAntigo(i) ==
    /\ ~navegando
    /\ pedidosAuth[i].tipo = "me"
    /\ pedidosAuth[i].token # token
    /\ pedidosAuth' = Remove(pedidosAuth, i)

\* C29 (as claimed): once login() or register() has completed, the session
\* it established (token in state, in local storage and in the request
\* header, and the user) is not cleared when a fetchUser started earlier for
\* a previously stored token settles late, failures included.
C29_LateFetchUserKeepsSession ==
    [][\A i \in DOMAIN pedidosAuth :
          (SessaoEstabelecida /\ LiquidouFetchUserAntigo(i)) => SessaoEstabelecida']_vars

\* the entry of the loaded list for the selected company
EntradaSelecionada == Find(empresas, empresaSelecionada.v.id)

\* C30 (as claimed): after the selected company was edited and the reload of
\* the list has completed, the selected company is the reloaded entry for
\* its id, never the object from before the edit, whether or not a company
\* id was ever saved to local storage.
C30_SelectedCompanyIsReloadedEntry ==
    (pedidosEmpresas = <<>> /\ empresaSelecionada # Null /\ empresas # <<>>)
        => empresaSelecionada = EntradaSelecionada

====
